---- MODULE Spec2Model ----
(***************************************************************************)
(* Model of the CircuitPython "useless box" controller (src/code.py).      *)
(*                                                                         *)
(* The program is one polling loop.  Every iteration (tick) samples the    *)
(* toggle switch and the limit microswitch, runs the handlers in a fixed   *)
(* order and sleeps 50 ms.  The model has one action per stage of the      *)
(* loop; pc is the position of the loop.  Time is the monotonic clock in   *)
(* milliseconds; it advances only in time.sleep() calls: the execution time  *)
(* of the loop body is negligible against the sleeps.                      *)
(*                                                                         *)
(* The imperative handlers are operators from a record of the program's    *)
(* globals to the record after the call.  Every individual pin write and   *)
(* every state change appends the resulting (pin A, pin B, state) point to *)
(* pin_trace, so that the intermediate points inside a handler can be      *)
(* stated.                                                                 *)
(***************************************************************************)
EXTENDS Integers, Sequences, FiniteSets, TLC

\* ------------------------------------------------------------------------
\* Program constants (milliseconds)
\* ------------------------------------------------------------------------
MOTOR_ON_TIME == 8
MOTOR_OFF_TIME == 25
DELAY_MIN == 500
DELAY_MAX == 1500
PAUSE_AFTER_TIME == 80
PAUSE_DELAY_MIN == 1000
PAUSE_DELAY_MAX == 2000
SETTLE_DELAY == 200
TICK_PERIOD == 50

IDLE == "IDLE"
EXTENDING == "EXTENDING"
EXTENDING_PAUSED == "EXTENDING_PAUSED"
RETRACTING == "RETRACTING"

ArmStates == {IDLE, EXTENDING, EXTENDING_PAUSED, RETRACTING}

\* Python's None for the optional timestamps
None == -1

\* ------------------------------------------------------------------------
\* Bounds of the model
\* ------------------------------------------------------------------------
\* the clock stops advancing past MaxTime (ms)
MaxTime == 2600
\* the consecutive-EXTENDING tick counter saturates here
MaxTicks == 4

\* random.uniform(DELAY_MIN, DELAY_MAX): the two ends of the range
Delays == {DELAY_MIN, DELAY_MAX}
\* random.uniform(PAUSE_DELAY_MIN, PAUSE_DELAY_MAX): the two ends of the range
PauseDurations == {PAUSE_DELAY_MIN, PAUSE_DELAY_MAX}

VARIABLES
    USE_SPEED_CONTROL,        \* configuration switch, fixed at start
    current_state,
    toggle_state, microswitch_state,
    prev_toggle_state, prev_microswitch_state,
    extension_start_time, should_pause_this_cycle,
    pause_start_time, pause_duration,
    motor_pin_a, motor_pin_b,
    motor_pulse_state, motor_pulse_last_time,
    now,                      \* time.monotonic(), ms
    pc,                       \* position in the main loop
    pin_trace,                \* points written so far in this tick
    tick_start_state,         \* current_state when the tick sampled its inputs
    tick_prev_toggle,         \* prev_toggle_state when the tick sampled
    tick_prev_micro,          \* prev_microswitch_state when the tick sampled
    tick_start,               \* the other globals when the tick sampled
    cycle_draw,               \* Bernoulli draw of the latest IDLE->EXTENDING
    pause_entries,            \* entries into EXTENDING_PAUSED since then
    ext_ticks,                \* consecutive ticks that ended in EXTENDING
    on_ticks                  \* ... of which ended with pin B high

vars == <<USE_SPEED_CONTROL, current_state, toggle_state, microswitch_state,
          prev_toggle_state, prev_microswitch_state, extension_start_time,
          should_pause_this_cycle, pause_start_time, pause_duration,
          motor_pin_a, motor_pin_b, motor_pulse_state, motor_pulse_last_time,
          now, pc, pin_trace, tick_start_state, tick_prev_toggle,
          tick_prev_micro, tick_start, cycle_draw, pause_entries, ext_ticks,
          on_ticks>>

\* ------------------------------------------------------------------------
\* The globals as a record, threaded through the handlers
\* ------------------------------------------------------------------------
Cur ==
    [current_state |-> current_state,
     prev_toggle_state |-> prev_toggle_state,
     extension_start_time |-> extension_start_time,
     should_pause_this_cycle |-> should_pause_this_cycle,
     pause_start_time |-> pause_start_time,
     pause_duration |-> pause_duration,
     motor_pin_a |-> motor_pin_a,
     motor_pin_b |-> motor_pin_b,
     motor_pulse_state |-> motor_pulse_state,
     motor_pulse_last_time |-> motor_pulse_last_time,
     now |-> now,
     pin_trace |-> pin_trace]

Point(s) ==
    [a |-> s.motor_pin_a, b |-> s.motor_pin_b, st |-> s.current_state]

\* motor_pin_a.value = v
WritePinA(s, v) ==
    LET t == [s EXCEPT !.motor_pin_a = v]
    IN  [t EXCEPT !.pin_trace = Append(@, Point(t))]

\* motor_pin_b.value = v
WritePinB(s, v) ==
    LET t == [s EXCEPT !.motor_pin_b = v]
    IN  [t EXCEPT !.pin_trace = Append(@, Point(t))]

\* time.sleep(d)
sleep(s, d) == [s EXCEPT !.now = @ + d]

\* ------------------------------------------------------------------------
\* Motor control functions
\* ------------------------------------------------------------------------
\* mutant: the stop that forgets pin B
motor_stop_OnlyPinA(s) == WritePinA(s, FALSE)

motor_stop(s) == WritePinB(WritePinA(s, FALSE), FALSE)

motor_forward(s) == WritePinB(WritePinA(s, FALSE), TRUE)

motor_reverse(s) == WritePinB(WritePinA(s, TRUE), FALSE)

PulseDue(s) ==
    s.now - s.motor_pulse_last_time >=
        (IF s.motor_pulse_state THEN MOTOR_ON_TIME ELSE MOTOR_OFF_TIME)

motor_forward_pulsed(s) ==
    IF PulseDue(s)
    THEN LET t == [s EXCEPT !.motor_pulse_state = ~@,
                            !.motor_pulse_last_time = s.now]
         IN  IF t.motor_pulse_state
             THEN WritePinB(WritePinA(t, FALSE), TRUE)
             ELSE WritePinB(WritePinA(t, FALSE), FALSE)
    ELSE s

\* mutant: the off phase of the reverse pulse writes no pin
motor_reverse_pulsed_NoOffWrite(s) ==
    IF PulseDue(s)
    THEN LET t == [s EXCEPT !.motor_pulse_state = ~@,
                            !.motor_pulse_last_time = s.now]
         IN  IF t.motor_pulse_state
             THEN WritePinB(WritePinA(t, TRUE), FALSE)
             ELSE t
    ELSE s

motor_reverse_pulsed(s) ==
    IF PulseDue(s)
    THEN LET t == [s EXCEPT !.motor_pulse_state = ~@,
                            !.motor_pulse_last_time = s.now]
         IN  IF t.motor_pulse_state
             THEN WritePinB(WritePinA(t, TRUE), FALSE)
             ELSE WritePinB(WritePinA(t, FALSE), FALSE)
    ELSE s

\* "if USE_SPEED_CONTROL: motor_forward_pulsed() else: motor_forward()"
DriveForward(s) ==
    IF USE_SPEED_CONTROL THEN motor_forward_pulsed(s) ELSE motor_forward(s)

\* "if USE_SPEED_CONTROL: motor_reverse_pulsed() else: motor_reverse()"
DriveReverse(s) ==
    IF USE_SPEED_CONTROL THEN motor_reverse_pulsed(s) ELSE motor_reverse(s)

\* ------------------------------------------------------------------------
\* State machine logic
\* ------------------------------------------------------------------------
set_state(s, new_state) ==
    IF s.current_state # new_state
    THEN LET t == [s EXCEPT !.current_state = new_state]
         IN  [t EXCEPT !.pin_trace = Append(@, Point(t))]
    ELSE s

\* the four "Reset timing" assignments
ResetTiming(s) ==
    [s EXCEPT !.extension_start_time = None,
              !.should_pause_this_cycle = FALSE,
              !.pause_start_time = None,
              !.pause_duration = 0]

\* mutant: the toggle-low branch drives forward again instead of reversing
handle_toggle_change_NoReverse(s, is_high, draw, delay) ==
    IF is_high
    THEN IF s.current_state = IDLE
         THEN LET s1 == [s EXCEPT !.should_pause_this_cycle = draw]
                  s2 == sleep(s1, delay)
                  s3 == [s2 EXCEPT !.extension_start_time = s2.now,
                                   !.pause_start_time = None,
                                   !.pause_duration = 0]
                  s4 == DriveForward(s3)
              IN  set_state(s4, EXTENDING)
         ELSE s
    ELSE IF s.current_state = EXTENDING \/ s.current_state = EXTENDING_PAUSED
         THEN LET s1 == motor_stop(s)
                  s2 == sleep(s1, SETTLE_DELAY)
                  s3 == DriveForward(s2)
                  s4 == set_state(s3, RETRACTING)
              IN  ResetTiming(s4)
         ELSE s

\* mutant: the toggle-low branch reverses from EXTENDING only
handle_toggle_change_NotPaused(s, is_high, draw, delay) ==
    IF is_high
    THEN IF s.current_state = IDLE
         THEN LET s1 == [s EXCEPT !.should_pause_this_cycle = draw]
                  s2 == sleep(s1, delay)
                  s3 == [s2 EXCEPT !.extension_start_time = s2.now,
                                   !.pause_start_time = None,
                                   !.pause_duration = 0]
                  s4 == DriveForward(s3)
              IN  set_state(s4, EXTENDING)
         ELSE s
    ELSE IF s.current_state = EXTENDING
         THEN LET s1 == motor_stop(s)
                  s2 == sleep(s1, SETTLE_DELAY)
                  s3 == DriveReverse(s2)
                  s4 == set_state(s3, RETRACTING)
              IN  ResetTiming(s4)
         ELSE s

\* mutant: the toggle-high branch without the "current_state == IDLE" test
handle_toggle_change_AnyState(s, is_high, draw, delay) ==
    IF is_high
    THEN LET s1 == [s EXCEPT !.should_pause_this_cycle = draw]
             s2 == sleep(s1, delay)
             s3 == [s2 EXCEPT !.extension_start_time = s2.now,
                              !.pause_start_time = None,
                              !.pause_duration = 0]
             s4 == DriveForward(s3)
         IN  set_state(s4, EXTENDING)
    ELSE IF s.current_state = EXTENDING \/ s.current_state = EXTENDING_PAUSED
         THEN LET s1 == motor_stop(s)
                  s2 == sleep(s1, SETTLE_DELAY)
                  s3 == DriveReverse(s2)
                  s4 == set_state(s3, RETRACTING)
              IN  ResetTiming(s4)
         ELSE s

\* mutant: the pause draw is made on every toggle-high change, in any state
handle_toggle_change_DrawFirst(s, is_high, draw, delay) ==
    IF is_high
    THEN LET s1 == [s EXCEPT !.should_pause_this_cycle = draw]
         IN  IF s.current_state = IDLE
             THEN LET s2 == sleep(s1, delay)
                      s3 == [s2 EXCEPT !.extension_start_time = s2.now,
                                       !.pause_start_time = None,
                                       !.pause_duration = 0]
                      s4 == DriveForward(s3)
                  IN  set_state(s4, EXTENDING)
             ELSE s1
    ELSE IF s.current_state = EXTENDING \/ s.current_state = EXTENDING_PAUSED
         THEN LET s1 == motor_stop(s)
                  s2 == sleep(s1, SETTLE_DELAY)
                  s3 == DriveReverse(s2)
                  s4 == set_state(s3, RETRACTING)
              IN  ResetTiming(s4)
         ELSE s

\* draw = random.random() < PAUSE_PROBABILITY, delay = random.uniform(...)
handle_toggle_change(s, is_high, draw, delay) ==
    IF is_high
    THEN IF s.current_state = IDLE
         THEN LET s1 == [s EXCEPT !.should_pause_this_cycle = draw]
                  s2 == sleep(s1, delay)
                  s3 == [s2 EXCEPT !.extension_start_time = s2.now,
                                   !.pause_start_time = None,
                                   !.pause_duration = 0]
                  s4 == DriveForward(s3)
              IN  set_state(s4, EXTENDING)
         ELSE s
    ELSE IF s.current_state = EXTENDING \/ s.current_state = EXTENDING_PAUSED
         THEN LET s1 == motor_stop(s)
                  s2 == sleep(s1, SETTLE_DELAY)
                  s3 == DriveReverse(s2)
                  s4 == set_state(s3, RETRACTING)
              IN  ResetTiming(s4)
         ELSE s

\* mutant: the RETRACTING branch goes to IDLE without stopping the motor
handle_microswitch_pressed_NoStop(s) ==
    IF s.current_state = RETRACTING
    THEN ResetTiming(set_state(s, IDLE))
    ELSE IF s.current_state = EXTENDING \/ s.current_state = EXTENDING_PAUSED
         THEN ResetTiming(set_state(motor_stop(s), IDLE))
         ELSE IF s.current_state = IDLE
              THEN s
              ELSE ResetTiming(set_state(motor_stop(s), IDLE))

\* mutant: a press while extending is only logged
handle_microswitch_pressed_IgnoreExtending(s) ==
    IF s.current_state = RETRACTING
    THEN ResetTiming(set_state(motor_stop(s), IDLE))
    ELSE s

handle_microswitch_pressed(s) ==
    IF s.current_state = RETRACTING
    THEN ResetTiming(set_state(motor_stop(s), IDLE))
    ELSE IF s.current_state = EXTENDING \/ s.current_state = EXTENDING_PAUSED
         THEN ResetTiming(set_state(motor_stop(s), IDLE))
         ELSE IF s.current_state = IDLE
              THEN s
              ELSE ResetTiming(set_state(motor_stop(s), IDLE))

handle_microswitch_released(s) ==
    IF s.current_state \notin {IDLE, EXTENDING, RETRACTING}
    THEN set_state(motor_stop(s), IDLE)
    ELSE s

\* ------------------------------------------------------------------------
\* Stages of the main loop
\* ------------------------------------------------------------------------
\* mutant: the toggle handler is run on the level, not on the change
toggle_stage_Level(s, tog, draw, delay) ==
    [handle_toggle_change(s, tog, draw, delay) EXCEPT !.prev_toggle_state = tog]

\* "if toggle_state != prev_toggle_state: handle_toggle_change(...)"
toggle_stage(s, tog, draw, delay) ==
    IF tog # s.prev_toggle_state
    THEN [handle_toggle_change(s, tog, draw, delay)
             EXCEPT !.prev_toggle_state = tog]
    ELSE s

\* mutant: the pause is entered without stopping the motor
pause_trigger_NoStop(s, tog, dur) ==
    IF /\ s.current_state = EXTENDING
       /\ s.should_pause_this_cycle
       /\ s.extension_start_time # None
       /\ s.now - s.extension_start_time >= PAUSE_AFTER_TIME
    THEN LET s2 == [s EXCEPT !.pause_start_time = s.now,
                             !.pause_duration = dur]
             s3 == set_state(s2, EXTENDING_PAUSED)
         IN  [s3 EXCEPT !.should_pause_this_cycle = FALSE,
                        !.prev_toggle_state = tog]
    ELSE s

\* mutant: the pause flag is not consumed
pause_trigger_KeepFlag(s, tog, dur) ==
    IF /\ s.current_state = EXTENDING
       /\ s.should_pause_this_cycle
       /\ s.extension_start_time # None
       /\ s.now - s.extension_start_time >= PAUSE_AFTER_TIME
    THEN LET s1 == motor_stop(s)
             s2 == [s1 EXCEPT !.pause_start_time = s1.now,
                              !.pause_duration = dur]
             s3 == set_state(s2, EXTENDING_PAUSED)
         IN  [s3 EXCEPT !.prev_toggle_state = tog]
    ELSE s

\* pause trigger; dur = random.uniform(PAUSE_DELAY_MIN, PAUSE_DELAY_MAX)
pause_trigger(s, tog, dur) ==
    IF /\ s.current_state = EXTENDING
       /\ s.should_pause_this_cycle
       /\ s.extension_start_time # None
       /\ s.now - s.extension_start_time >= PAUSE_AFTER_TIME
    THEN LET s1 == motor_stop(s)
             s2 == [s1 EXCEPT !.pause_start_time = s1.now,
                              !.pause_duration = dur]
             s3 == set_state(s2, EXTENDING_PAUSED)
         IN  [s3 EXCEPT !.should_pause_this_cycle = FALSE,
                        !.prev_toggle_state = tog]
    ELSE s

\* "set_state(EXTENDING); pause_start_time = None; pause_duration = 0.0"
Resume(s) ==
    LET s1 == set_state(DriveForward(s), EXTENDING)
    IN  [s1 EXCEPT !.pause_start_time = None, !.pause_duration = 0]

\* mutant: the remaining-time test of the pause is inverted
pause_resume_Inverted(s) ==
    IF s.current_state = EXTENDING_PAUSED
    THEN LET s1 == motor_stop(s)
         IN  IF s1.pause_start_time # None /\ s1.pause_duration > 0
             THEN IF s1.pause_duration - (s1.now - s1.pause_start_time) > 0
                  THEN Resume(s1)
                  ELSE s1
             ELSE IF s1.pause_start_time = None \/ s1.pause_duration = 0
                  THEN Resume(s1)
                  ELSE s1
    ELSE s

\* mutant: the pause ends only when the elapsed time exceeds the duration
pause_resume_Late(s) ==
    IF s.current_state = EXTENDING_PAUSED
    THEN LET s1 == motor_stop(s)
         IN  IF s1.pause_start_time # None /\ s1.pause_duration > 0
             THEN IF s1.pause_duration - (s1.now - s1.pause_start_time) >= 0
                  THEN s1
                  ELSE Resume(s1)
             ELSE IF s1.pause_start_time = None \/ s1.pause_duration = 0
                  THEN Resume(s1)
                  ELSE s1
    ELSE s

pause_resume(s) ==
    IF s.current_state = EXTENDING_PAUSED
    THEN LET s1 == motor_stop(s)
         IN  IF s1.pause_start_time # None /\ s1.pause_duration > 0
             THEN IF s1.pause_duration - (s1.now - s1.pause_start_time) > 0
                  THEN s1
                  ELSE Resume(s1)
             ELSE IF s1.pause_start_time = None \/ s1.pause_duration = 0
                  THEN Resume(s1)
                  ELSE s1
    ELSE s

\* continuous toggle-low check
toggle_low_check(s, tog) ==
    IF (s.current_state = EXTENDING \/ s.current_state = EXTENDING_PAUSED)
       /\ ~tog
    THEN LET s1 == motor_stop(s)
             s2 == sleep(s1, SETTLE_DELAY)
             s3 == DriveReverse(s2)
             s4 == set_state(s3, RETRACTING)
             s5 == [s4 EXCEPT !.prev_toggle_state = tog]
         IN  ResetTiming(s5)
    ELSE s

\* mutant: the two pulsed calls are exchanged
speed_control_Swapped(s) ==
    IF USE_SPEED_CONTROL
    THEN IF s.current_state = EXTENDING
         THEN motor_reverse_pulsed(s)
         ELSE IF s.current_state = RETRACTING
              THEN motor_forward_pulsed(s)
              ELSE s
    ELSE s

\* speed-control tick
speed_control(s) ==
    IF USE_SPEED_CONTROL
    THEN IF s.current_state = EXTENDING
         THEN motor_forward_pulsed(s)
         ELSE IF s.current_state = RETRACTING
              THEN motor_reverse_pulsed(s)
              ELSE s
    ELSE s

\* microswitch edge detection; the result and the new prev_microswitch_state
microswitch_stage(s, ms, prev_ms) ==
    IF ms /\ ~prev_ms
    THEN handle_microswitch_pressed(s)
    ELSE IF ~ms /\ prev_ms
         THEN handle_microswitch_released(s)
         ELSE s

\* ------------------------------------------------------------------------
\* History bookkeeping (not program state)
\* ------------------------------------------------------------------------
Min(x, y) == IF x < y THEN x ELSE y

History(s) ==
    /\ cycle_draw' =
          IF current_state = IDLE /\ s.current_state = EXTENDING
          THEN s.should_pause_this_cycle ELSE cycle_draw
    /\ pause_entries' =
          IF current_state = IDLE /\ s.current_state = EXTENDING
          THEN 0
          ELSE IF current_state # EXTENDING_PAUSED
                  /\ s.current_state = EXTENDING_PAUSED
               THEN Min(pause_entries + 1, 2)
               ELSE pause_entries

\* write the record back to the globals
Commit(s) ==
    /\ current_state' = s.current_state
    /\ prev_toggle_state' = s.prev_toggle_state
    /\ extension_start_time' = s.extension_start_time
    /\ should_pause_this_cycle' = s.should_pause_this_cycle
    /\ pause_start_time' = s.pause_start_time
    /\ pause_duration' = s.pause_duration
    /\ motor_pin_a' = s.motor_pin_a
    /\ motor_pin_b' = s.motor_pin_b
    /\ motor_pulse_state' = s.motor_pulse_state
    /\ motor_pulse_last_time' = s.motor_pulse_last_time
    /\ now' = s.now
    /\ pin_trace' = s.pin_trace
    /\ History(s)

\* ------------------------------------------------------------------------
\* Initial state: the globals when the while-loop is entered
\* ------------------------------------------------------------------------
\* toggle_state and microswitch_state are None until the first iteration
\* assigns them; they are never read before that, so they start here at the
\* levels read into prev_toggle_state and prev_microswitch_state.
\* USE_SPEED_CONTROL is the configuration switch of line 33, either setting.
Init ==
    /\ USE_SPEED_CONTROL \in BOOLEAN
    /\ current_state = IDLE
    /\ prev_toggle_state \in BOOLEAN
    /\ prev_microswitch_state \in BOOLEAN
    /\ toggle_state = prev_toggle_state
    /\ microswitch_state = prev_microswitch_state
    /\ extension_start_time = None
    /\ should_pause_this_cycle = FALSE
    /\ pause_start_time = None
    /\ pause_duration = 0
    /\ motor_pin_a = FALSE
    /\ motor_pin_b = FALSE
    /\ motor_pulse_state = FALSE
    /\ motor_pulse_last_time = 0
    /\ now = 0
    /\ pc = "read"
    /\ pin_trace = << >>
    /\ tick_start_state = IDLE
    /\ tick_prev_toggle = prev_toggle_state
    /\ tick_prev_micro = prev_microswitch_state
    /\ tick_start = Cur
    /\ cycle_draw = FALSE
    /\ pause_entries = 0
    /\ ext_ticks = 0
    /\ on_ticks = 0

\* ------------------------------------------------------------------------
\* Actions: one per stage of the loop
\* ------------------------------------------------------------------------
ReadInputs ==
    /\ pc = "read"
    /\ toggle_state' \in BOOLEAN
    /\ microswitch_state' \in BOOLEAN
    /\ tick_start_state' = current_state
    /\ tick_prev_toggle' = prev_toggle_state
    /\ tick_prev_micro' = prev_microswitch_state
    /\ tick_start' = [Cur EXCEPT !.pin_trace = << >>]
    /\ pin_trace' = << >>
    /\ pc' = "toggle"
    /\ UNCHANGED <<USE_SPEED_CONTROL, current_state, prev_toggle_state,
                   prev_microswitch_state, extension_start_time,
                   should_pause_this_cycle, pause_start_time, pause_duration,
                   motor_pin_a, motor_pin_b, motor_pulse_state,
                   motor_pulse_last_time, now, cycle_draw, pause_entries,
                   ext_ticks, on_ticks>>

StageFrame ==
    UNCHANGED <<USE_SPEED_CONTROL, toggle_state, microswitch_state,
                tick_start_state, tick_prev_toggle, tick_prev_micro,
                tick_start, ext_ticks, on_ticks>>

ToggleChange ==
    /\ pc = "toggle"
    /\ \E draw \in BOOLEAN, delay \in Delays :
          LET s == toggle_stage(Cur, toggle_state, draw, delay)
          IN  s.now <= MaxTime /\ Commit(s)
    /\ pc' = "pause_trigger"
    /\ UNCHANGED prev_microswitch_state
    /\ StageFrame

PauseTrigger ==
    /\ pc = "pause_trigger"
    /\ \E dur \in PauseDurations :
          Commit(pause_trigger(Cur, toggle_state, dur))
    /\ pc' = "pause_resume"
    /\ UNCHANGED prev_microswitch_state
    /\ StageFrame

PauseResume ==
    /\ pc = "pause_resume"
    /\ Commit(pause_resume(Cur))
    /\ pc' = "toggle_low"
    /\ UNCHANGED prev_microswitch_state
    /\ StageFrame

ToggleLowCheck ==
    /\ pc = "toggle_low"
    /\ LET s == toggle_low_check(Cur, toggle_state)
       IN  s.now <= MaxTime /\ Commit(s)
    /\ pc' = "speed"
    /\ UNCHANGED prev_microswitch_state
    /\ StageFrame

SpeedControl ==
    /\ pc = "speed"
    /\ Commit(speed_control(Cur))
    /\ pc' = "microswitch"
    /\ UNCHANGED prev_microswitch_state
    /\ StageFrame

MicroswitchEdge ==
    /\ pc = "microswitch"
    /\ Commit(microswitch_stage(Cur, microswitch_state, prev_microswitch_state))
    /\ prev_microswitch_state' = microswitch_state
    /\ pc' = "sleep"
    /\ StageFrame

\* time.sleep(0.05), the end of the tick
TickSleep ==
    /\ pc = "sleep"
    /\ now + TICK_PERIOD <= MaxTime
    /\ now' = now + TICK_PERIOD
    /\ ext_ticks' = IF current_state = EXTENDING
                    THEN Min(ext_ticks + 1, MaxTicks) ELSE 0
    /\ on_ticks' = IF current_state = EXTENDING
                   THEN (IF ext_ticks < MaxTicks /\ motor_pin_b
                         THEN on_ticks + 1 ELSE on_ticks)
                   ELSE 0
    /\ pc' = "read"
    /\ UNCHANGED <<USE_SPEED_CONTROL, current_state, toggle_state,
                   microswitch_state, prev_toggle_state,
                   prev_microswitch_state, extension_start_time,
                   should_pause_this_cycle, pause_start_time, pause_duration,
                   motor_pin_a, motor_pin_b, motor_pulse_state,
                   motor_pulse_last_time, pin_trace, tick_start_state,
                   tick_prev_toggle, tick_prev_micro, tick_start, cycle_draw,
                   pause_entries>>

Next ==
    \/ ReadInputs
    \/ ToggleChange
    \/ PauseTrigger
    \/ PauseResume
    \/ ToggleLowCheck
    \/ SpeedControl
    \/ MicroswitchEdge
    \/ TickSleep

Spec == Init /\ [][Next]_vars

TypeOK ==
    /\ current_state \in ArmStates
    /\ motor_pin_a \in BOOLEAN /\ motor_pin_b \in BOOLEAN
    /\ now \in 0..MaxTime
    /\ extension_start_time \in {None} \cup (0..MaxTime)
    /\ pause_start_time \in {None} \cup (0..MaxTime)
    /\ pause_duration \in {0} \cup PauseDurations


\* ------------------------------------------------------------------------
\* Properties
\* ------------------------------------------------------------------------
\* all handlers of the tick have run; only the 50 ms sleep remains
TickEnd == pc = "sleep"

\* this tick sampled a Released->Pressed change of the limit switch
LimitPressEdge == microswitch_state /\ ~tick_prev_micro

\* this tick sampled a High->Low change of the toggle
ToggleLowEdge == tick_prev_toggle /\ ~toggle_state

MotorStopped == ~motor_pin_a /\ ~motor_pin_b

\* C1: a tick that starts in RETRACTING and samples a limit-switch press
\* edge ends in IDLE with both motor pins low, whatever the toggle does.
C1_RetractingLimitPress ==
    (TickEnd /\ tick_start_state = RETRACTING /\ LimitPressEdge)
        => (current_state = IDLE /\ MotorStopped)

C1_Witness ==
    /\ TickEnd /\ tick_start_state = RETRACTING /\ LimitPressEdge
    /\ toggle_state # tick_prev_toggle
    /\ current_state = IDLE

\* C2 (as claimed): a tick that starts in EXTENDING or EXTENDING_PAUSED and
\* samples a toggle High->Low change and no limit press edge ends in
\* RETRACTING with pin A high and pin B low, with speed control on or off.
C2_Original ==
    (TickEnd /\ tick_start_state \in {EXTENDING, EXTENDING_PAUSED}
        /\ ToggleLowEdge /\ ~LimitPressEdge)
        => (current_state = RETRACTING /\ motor_pin_a /\ ~motor_pin_b)

\* C2 (amended): such a tick ends in RETRACTING with pin B low; pin A is high
\* when speed control is off and equals the PWM phase motor_pulse_state when
\* it is on.
C2_ToggleLowReverses ==
    (TickEnd /\ tick_start_state \in {EXTENDING, EXTENDING_PAUSED}
        /\ ToggleLowEdge /\ ~LimitPressEdge)
        => /\ current_state = RETRACTING
           /\ ~motor_pin_b
           /\ motor_pin_a = (IF USE_SPEED_CONTROL THEN motor_pulse_state
                                                  ELSE TRUE)

C2_Witness ==
    /\ TickEnd /\ tick_start_state = EXTENDING_PAUSED
    /\ ToggleLowEdge /\ ~LimitPressEdge
    /\ current_state = RETRACTING /\ motor_pin_a /\ USE_SPEED_CONTROL

InputsUnchanged ==
    toggle_state = tick_prev_toggle /\ microswitch_state = tick_prev_micro

\* C3 (as claimed): a tick whose two samples equal the previous tick's
\* samples leaves current_state unchanged.
C3_Original ==
    (TickEnd /\ InputsUnchanged) => current_state = tick_start_state

\* C3 (amended): a tick whose two samples equal the previous tick's samples
\* leaves current_state unchanged, except for the two time-driven pause
\* transitions EXTENDING -> EXTENDING_PAUSED and EXTENDING_PAUSED -> EXTENDING.
C3_UnchangedInputs ==
    (TickEnd /\ InputsUnchanged)
        => \/ current_state = tick_start_state
           \/ tick_start_state = EXTENDING /\ current_state = EXTENDING_PAUSED
           \/ tick_start_state = EXTENDING_PAUSED /\ current_state = EXTENDING

C3_Witness ==
    /\ TickEnd /\ InputsUnchanged
    /\ tick_start_state = EXTENDING_PAUSED /\ current_state = EXTENDING

\* the edges of the claimed cycle
CycleEdges ==
    { <<IDLE, EXTENDING>>, <<EXTENDING, EXTENDING_PAUSED>>,
      <<EXTENDING_PAUSED, EXTENDING>>, <<EXTENDING, RETRACTING>>,
      <<EXTENDING_PAUSED, RETRACTING>>, <<RETRACTING, IDLE>> }

\* the two safety stops
SafetyEdges == { <<EXTENDING, IDLE>>, <<EXTENDING_PAUSED, IDLE>> }

\* C4 (as claimed): the only changes of current_state are the six edges of
\* the cycle.
C4_Original ==
    [][current_state' # current_state
          => <<current_state, current_state'>> \in CycleEdges]_vars

\* C4 (amended): the only changes of current_state are the six edges of the
\* cycle and the two safety stops EXTENDING -> IDLE, EXTENDING_PAUSED -> IDLE.
C4_ClosedTransitions ==
    [][current_state' # current_state
          => <<current_state, current_state'>> \in CycleEdges \cup SafetyEdges]_vars

C4_Witness ==
    \E i \in 1..(Len(pin_trace) - 1) :
        pin_trace[i].st = EXTENDING /\ pin_trace[i + 1].st = IDLE

SafePoint(p) ==
    /\ p.st \in {EXTENDING_PAUSED, IDLE} => ~p.b
    /\ p.st = IDLE => (~p.a /\ ~p.b)

\* C5 (as claimed): at every pin write and every state change, pin B is low
\* while the state is EXTENDING_PAUSED or IDLE and both pins are low while it
\* is IDLE.
C5_Original ==
    \A i \in DOMAIN pin_trace : SafePoint(pin_trace[i])

\* C5 (amended): whenever a stage of the loop has completed (so at the end
\* of every tick), pin B is low while the state is EXTENDING_PAUSED or IDLE
\* and both pins are low while it is IDLE.
C5_MotorStateSafety ==
    SafePoint([a |-> motor_pin_a, b |-> motor_pin_b, st |-> current_state])

C5_Witness ==
    /\ pc = "pause_resume" /\ tick_start_state = EXTENDING
    /\ current_state = EXTENDING_PAUSED /\ ~USE_SPEED_CONTROL
    /\ Len(pin_trace) > 0

\* C6: a tick that starts in EXTENDING or EXTENDING_PAUSED and samples a
\* limit-switch press edge ends in IDLE with both pins low, for either toggle
\* level and with or without a toggle change.
C6_AnomalousLimitPress ==
    (TickEnd /\ tick_start_state \in {EXTENDING, EXTENDING_PAUSED}
        /\ LimitPressEdge)
        => (current_state = IDLE /\ MotorStopped)

C6_Witness ==
    /\ TickEnd /\ tick_start_state = EXTENDING /\ LimitPressEdge
    /\ toggle_state /\ tick_prev_toggle
    /\ current_state = IDLE /\ MotorStopped

\* C7: since the latest IDLE -> EXTENDING transition the state has entered
\* EXTENDING_PAUSED at most once, and only if the draw made at that
\* transition was true.
C7_PauseBounded ==
    /\ pause_entries <= 1
    /\ pause_entries >= 1 => cycle_draw

C7_Witness ==
    /\ TickEnd /\ pause_entries = 1 /\ cycle_draw
    /\ tick_start_state = EXTENDING /\ current_state = EXTENDING
    /\ now - extension_start_time >= PAUSE_AFTER_TIME

\* C8: with speed control on, over N consecutive ticks that end in EXTENDING
\* the number of ticks that end with pin B high is within one tick of
\* N * MOTOR_ON_TIME / (MOTOR_ON_TIME + MOTOR_OFF_TIME).
C8_DutyRatio ==
    USE_SPEED_CONTROL =>
        LET period == MOTOR_ON_TIME + MOTOR_OFF_TIME
            d == on_ticks * period - ext_ticks * MOTOR_ON_TIME
        IN  d <= period /\ -d <= period

\* C9: at the end of every tick, IDLE or RETRACTING implies that all the
\* cycle timing data is cleared.
C9_TimingCleared ==
    (TickEnd /\ current_state \in {IDLE, RETRACTING})
        => /\ extension_start_time = None
           /\ ~should_pause_this_cycle
           /\ pause_start_time = None
           /\ pause_duration = 0

\* C10: the two motor pins are never both high, not even between the two pin
\* writes of a motor function.
C10_PinsNeverBothHigh ==
    /\ ~(motor_pin_a /\ motor_pin_b)
    /\ \A i \in DOMAIN pin_trace : ~(pin_trace[i].a /\ pin_trace[i].b)

C10_Witness ==
    /\ pc = "pause_trigger" /\ ~USE_SPEED_CONTROL
    /\ tick_start_state = EXTENDING /\ current_state = RETRACTING
    /\ motor_pin_a /\ Len(pin_trace) >= 5

\* this tick sampled the toggle High, as the previous tick did
ToggleHeldHigh == toggle_state /\ tick_prev_toggle

\* this tick sampled no change of the limit switch
NoLimitEdge == microswitch_state = tick_prev_micro

\* C11: at the end of a tick the state is EXTENDING_PAUSED only with both
\* pins low and less than pause_duration elapsed since pause_start_time; a
\* tick that starts in EXTENDING_PAUSED with the toggle held High and no
\* limit-switch edge stays paused, pins low and timing kept, while the
\* elapsed time is below pause_duration, and at the first tick at which it
\* is not, ends in EXTENDING with pause_start_time = None, pause_duration = 0.
C11_PauseDuration ==
    /\ (TickEnd /\ current_state = EXTENDING_PAUSED)
          => /\ MotorStopped
             /\ pause_start_time # None
             /\ pause_duration \in PAUSE_DELAY_MIN..PAUSE_DELAY_MAX
             /\ now - pause_start_time < pause_duration
    /\ (TickEnd /\ tick_start_state = EXTENDING_PAUSED
           /\ ToggleHeldHigh /\ NoLimitEdge)
          => IF now - tick_start.pause_start_time >= tick_start.pause_duration
             THEN /\ current_state = EXTENDING
                  /\ pause_start_time = None
                  /\ pause_duration = 0
             ELSE /\ current_state = EXTENDING_PAUSED
                  /\ MotorStopped
                  /\ pause_start_time = tick_start.pause_start_time
                  /\ pause_duration = tick_start.pause_duration

C11_Witness ==
    /\ TickEnd /\ tick_start_state = EXTENDING_PAUSED
    /\ ToggleHeldHigh /\ NoLimitEdge
    /\ tick_start.pause_duration = PAUSE_DELAY_MIN
    /\ now - tick_start.pause_start_time = PAUSE_DELAY_MIN
    /\ current_state = EXTENDING /\ pause_start_time = None

\* C12: a tick that starts in RETRACTING and samples the limit switch
\* Pressed (as a new edge or as a held level) ends in IDLE with both pins low.
C12_RetractionEndsAtLimit ==
    (TickEnd /\ tick_start_state = RETRACTING /\ microswitch_state)
        => (current_state = IDLE /\ MotorStopped)

\* this tick sampled a Low->High change of the toggle
ToggleHighEdge == toggle_state /\ ~tick_prev_toggle

\* C13 (as claimed): a tick that starts in IDLE and samples the limit switch
\* Pressed, as a new edge or as a held level, ends in IDLE with both pins low.
C13_Original ==
    (TickEnd /\ tick_start_state = IDLE /\ microswitch_state)
        => (current_state = IDLE /\ MotorStopped)

\* C13 (amended): such a tick ends in IDLE with both pins low when the press
\* is a new edge, or when the toggle sample is not a Low->High change.
C13_IdleOnLimit ==
    (TickEnd /\ tick_start_state = IDLE /\ microswitch_state
        /\ (LimitPressEdge \/ ~ToggleHighEdge))
        => (current_state = IDLE /\ MotorStopped)

C13_Witness ==
    /\ TickEnd /\ tick_start_state = IDLE /\ LimitPressEdge /\ ToggleHighEdge
    /\ current_state = IDLE /\ MotorStopped
    /\ \E i \in DOMAIN pin_trace : pin_trace[i].st = EXTENDING

\* C14: should_pause_this_cycle is true only while the state is EXTENDING
\* (after every stage, so at the end of every tick), and it becomes true only
\* in the step that takes IDLE to EXTENDING: within a cycle it falls once
\* and is not set again.
C14_PauseFlagScope ==
    /\ [](should_pause_this_cycle => current_state = EXTENDING)
    /\ [][(~should_pause_this_cycle /\ should_pause_this_cycle')
             => (current_state = IDLE /\ current_state' = EXTENDING)]_vars

C14_Witness ==
    /\ TickEnd /\ cycle_draw /\ ~should_pause_this_cycle
    /\ pause_entries = 1 /\ current_state = EXTENDING
    /\ tick_start_state = EXTENDING

\* the state before point i of this tick's trace
StateBefore(i) ==
    IF i = 1 THEN tick_start_state ELSE pin_trace[i - 1].st

\* the points of this tick's trace at which current_state changed
StateChanges ==
    { i \in DOMAIN pin_trace : pin_trace[i].st # StateBefore(i) }

\* C15 (as claimed): current_state changes at most once in a tick.
C15_Original == Cardinality(StateChanges) <= 1

\* C15 (amended): the stages before the limit-switch edge handling change
\* current_state at most once in a tick; the limit-switch edge handling, the
\* last stage, may add one more change, which is to IDLE.
C15_TransitionsPerTick ==
    /\ pc \notin {"sleep", "read"} => Cardinality(StateChanges) <= 1
    /\ Cardinality(StateChanges) <= 2
    /\ Cardinality(StateChanges) = 2 => current_state = IDLE

C15_Witness ==
    /\ TickEnd /\ Cardinality(StateChanges) = 2
    /\ tick_start_state = EXTENDING
    /\ \E i \in StateChanges : pin_trace[i].st = RETRACTING
    /\ current_state = IDLE

\* C16: in a tick that starts in EXTENDING with the pause pending and
\* PAUSE_AFTER_TIME elapsed, and that samples the toggle Low, the state
\* enters EXTENDING_PAUSED before any move to RETRACTING.
C16_PauseBeforeToggleLow ==
    (TickEnd /\ tick_start_state = EXTENDING
        /\ tick_start.should_pause_this_cycle
        /\ tick_start.extension_start_time # None
        /\ tick_start.now - tick_start.extension_start_time >= PAUSE_AFTER_TIME
        /\ ~toggle_state)
        => \E i \in DOMAIN pin_trace :
              /\ pin_trace[i].st = EXTENDING_PAUSED
              /\ \A j \in 1..i : pin_trace[j].st # RETRACTING

\* C17: the stage that handles a Pressed->Released change of the limit
\* switch changes neither current_state nor the motor pins.
C17_ReleaseLogOnly ==
    [][(pc = "microswitch" /\ ~microswitch_state /\ prev_microswitch_state)
          => UNCHANGED <<current_state, motor_pin_a, motor_pin_b>>]_vars

\* C18: current_state leaves IDLE only in a tick whose toggle sample is High
\* and differs from the previous sample; every other tick that starts in
\* IDLE writes no pin, makes no state change and leaves current_state, both
\* pins and the cycle timing as they were.
C18_EdgeTriggeredStart ==
    /\ \A i \in DOMAIN pin_trace :
          (StateBefore(i) = IDLE /\ pin_trace[i].st # IDLE) => ToggleHighEdge
    /\ (TickEnd /\ tick_start_state = IDLE /\ ~ToggleHighEdge)
          => /\ current_state = IDLE
             /\ pin_trace = << >>
             /\ motor_pin_a = tick_start.motor_pin_a
             /\ motor_pin_b = tick_start.motor_pin_b
             /\ extension_start_time = tick_start.extension_start_time
             /\ should_pause_this_cycle = tick_start.should_pause_this_cycle
             /\ pause_start_time = tick_start.pause_start_time
             /\ pause_duration = tick_start.pause_duration

C18_Witness ==
    /\ TickEnd /\ tick_start_state = IDLE /\ ToggleHeldHigh
    /\ current_state = IDLE /\ motor_pulse_last_time > 0

\* C19: whenever the loop reaches the continuous toggle check in EXTENDING
\* or EXTENDING_PAUSED the toggle sample of the tick is High, and at the end
\* of every tick EXTENDING or EXTENDING_PAUSED implies
\* prev_toggle_state = toggle_state = High.
C19_LevelCheckNeverFires ==
    /\ (pc = "toggle_low"
           /\ current_state \in {EXTENDING, EXTENDING_PAUSED})
          => toggle_state
    /\ (TickEnd /\ current_state \in {EXTENDING, EXTENDING_PAUSED})
          => (toggle_state /\ prev_toggle_state)

C19_Witness ==
    /\ pc = "toggle_low" /\ current_state = EXTENDING_PAUSED
    /\ tick_start_state = EXTENDING_PAUSED /\ toggle_state

\* C20: at the end of every tick pin B is high only in EXTENDING and pin A
\* is high only in RETRACTING.
C20_DirectionMatchesState ==
    TickEnd => /\ motor_pin_b => current_state = EXTENDING
               /\ motor_pin_a => current_state = RETRACTING

C20_Witness ==
    /\ TickEnd /\ USE_SPEED_CONTROL /\ current_state = RETRACTING
    /\ tick_start_state = RETRACTING /\ motor_pin_a /\ ~motor_pin_b

\* C21: with speed control on, at the end of every tick that ends in
\* EXTENDING pin B equals motor_pulse_state and pin A is low, and at the end
\* of every tick that ends in RETRACTING pin A equals motor_pulse_state and
\* pin B is low.
C21_PhasePinConsistency ==
    (TickEnd /\ USE_SPEED_CONTROL)
        => /\ current_state = EXTENDING
                => (motor_pin_b = motor_pulse_state /\ ~motor_pin_a)
           /\ current_state = RETRACTING
                => (motor_pin_a = motor_pulse_state /\ ~motor_pin_b)

\* motor_stop ran with the phase on; the reverse pulse then flipped it to off
C21_Witness ==
    /\ TickEnd /\ USE_SPEED_CONTROL
    /\ tick_start_state = EXTENDING /\ tick_start.motor_pulse_state
    /\ tick_start.motor_pin_b
    /\ current_state = RETRACTING
    /\ ~motor_pulse_state /\ ~motor_pin_a /\ ~motor_pin_b

====
